---- MODULE Spec2Model ----
(***************************************************************************)
(* A model of SourcePacker.py: pack() of a directory or of a .vcxproj      *)
(* project into a .spack text archive, and unpack() of such an archive.    *)
(*                                                                         *)
(* Text is a sequence of code points, file content a sequence of bytes     *)
(* (0..255); a path is the sequence of its components, each component a    *)
(* text.  All paths on the disk are absolute (the root is implied).        *)
(***************************************************************************)
EXTENDS Integers, Sequences, FiniteSets, TLC

\* ------------------------------------------------------------- bounds
\* Largest number of files in the directory tree handed to pack.
MaxFiles == 3
\* Largest number of segments in an archive handed to unpack directly.
MaxBlocks == 3
\* Largest number of raw bytes of a file content drawn byte by byte.
MaxRaw == 2
\* Largest number of item elements in a project file.
MaxItems == 2

\* ---------------------------------------------------------- constants
\* "[--_SOURCE_PACKER_FILE_BOUNDARY_--]"
BOUNDARY ==
    <<91, 45, 45, 95, 83, 79, 85, 82, 67, 69, 95, 80, 65, 67, 75, 69, 82, 95,
      70, 73, 76, 69, 95, 66, 79, 85, 78, 68, 65, 82, 89, 95, 45, 45, 93>>

\* DEFAULT_EXCLUDES['dirs']:
\* {'__pycache__', '.git', '.vs', 'x64', 'Debug', 'Release', 'ipch'}
EXCLUDE_DIRS ==
    { <<95, 95, 112, 121, 99, 97, 99, 104, 101, 95, 95>>,
      <<46, 103, 105, 116>>,
      <<46, 118, 115>>,
      <<120, 54, 52>>,
      <<68, 101, 98, 117, 103>>,
      <<82, 101, 108, 101, 97, 115, 101>>,
      <<105, 112, 99, 104>> }

\* DEFAULT_EXCLUDES['files']: {'.suo', '.user'}
EXCLUDE_FILES ==
    { <<46, 115, 117, 111>>, <<46, 117, 115, 101, 114>> }

\* DEFAULT_EXCLUDES['exts']: {'.obj', '.ilk', '.pdb', '.tlog', '.pch',
\* '.res', '.exe', '.dll', '.lib', '.ncb', '.sdf'}
EXCLUDE_EXTS ==
    { <<46, 111, 98, 106>>, <<46, 105, 108, 107>>, <<46, 112, 100, 98>>,
      <<46, 116, 108, 111, 103>>, <<46, 112, 99, 104>>, <<46, 114, 101, 115>>,
      <<46, 101, 120, 101>>, <<46, 100, 108, 108>>, <<46, 108, 105, 98>>,
      <<46, 110, 99, 98>>, <<46, 115, 100, 102>> }

\* item_tags of parse_vcxproj
ITEM_TAGS ==
    {"ClCompile", "ClInclude", "ResourceCompile", "None", "Image",
     "CustomBuild", "FxCompile"}

\* --------------------------------------------------------------- text
NL == <<10>>
Colon == <<58>>
Slash == <<47>>
\* "Path: ", "Size: ", "Encoding: Base64"
PathHeader == <<80, 97, 116, 104, 58, 32>>
SizeHeader == <<83, 105, 122, 101, 58, 32>>
EncodingHeader ==
    <<69, 110, 99, 111, 100, 105, 110, 103, 58, 32, 66, 97, 115, 101, 54, 52>>
\* "Path", "Encoding", "Base64"
KeyPath == <<80, 97, 116, 104>>
KeyEncoding == <<69, 110, 99, 111, 100, 105, 110, 103>>
Base64Name == <<66, 97, 115, 101, 54, 52>>

\* The code points str.strip() removes (those below 128).
Whitespace == {9, 10, 11, 12, 13, 28, 29, 30, 31, 32}

\* pat occurs in s at index i.
OccursAt(pat, s, i) ==
    /\ i >= 1
    /\ i + Len(pat) - 1 <= Len(s)
    /\ \A k \in 1..Len(pat) : s[i + k - 1] = pat[k]

\* str.find: the first index >= from where pat occurs in s, 0 when none.
Find(pat, s, from) ==
    LET hits == {i \in from..(Len(s) - Len(pat) + 1) : OccursAt(pat, s, i)}
    IN  IF hits = {} THEN 0 ELSE CHOOSE i \in hits : \A j \in hits : i <= j

Contains(pat, s) == Find(pat, s, 1) # 0

\* str.split(sep): the pieces between the occurrences of sep, left to right.
RECURSIVE SplitOn(_, _)
SplitOn(s, sep) ==
    LET i == Find(sep, s, 1)
    IN  IF i = 0 THEN <<s>>
        ELSE <<SubSeq(s, 1, i - 1)>>
             \o SplitOn(SubSeq(s, i + Len(sep), Len(s)), sep)

\* str.split(sep, 1): at most two pieces, cut at the first occurrence.
SplitFirst(s, sep) ==
    LET i == Find(sep, s, 1)
    IN  IF i = 0 THEN <<s>>
        ELSE <<SubSeq(s, 1, i - 1), SubSeq(s, i + Len(sep), Len(s))>>

RECURSIVE LStrip(_)
LStrip(s) ==
    IF s # <<>> /\ s[1] \in Whitespace THEN LStrip(Tail(s)) ELSE s

RECURSIVE RStrip(_)
RStrip(s) ==
    IF s # <<>> /\ s[Len(s)] \in Whitespace
    THEN RStrip(SubSeq(s, 1, Len(s) - 1))
    ELSE s

\* str.strip()
Strip(s) == RStrip(LStrip(s))

\* str.lower() on the code points the model uses (A-Z, and 0xC0-0xDE).
LowerChar(c) ==
    IF (c >= 65 /\ c <= 90) \/ (c >= 192 /\ c <= 222 /\ c # 215)
    THEN c + 32
    ELSE c

Lower(s) == [i \in 1..Len(s) |-> LowerChar(s[i])]

\* str(n) of a natural number.
RECURSIVE Decimal(_)
Decimal(n) ==
    IF n < 10 THEN <<48 + n>> ELSE Decimal(n \div 10) \o <<48 + (n % 10)>>

\* Whether text can be written to a file opened with encoding='ascii'.
IsAscii(s) == \A i \in 1..Len(s) : s[i] < 128

RECURSIVE Flatten(_)
Flatten(ss) == IF ss = <<>> THEN <<>> ELSE Head(ss) \o Flatten(Tail(ss))

\* ------------------------------------------------------------- base64
\* The standard alphabet, value 0 first.
B64Alphabet ==
    <<65, 66, 67, 68, 69, 70, 71, 72, 73, 74, 75, 76, 77, 78, 79, 80, 81, 82,
      83, 84, 85, 86, 87, 88, 89, 90, 97, 98, 99, 100, 101, 102, 103, 104,
      105, 106, 107, 108, 109, 110, 111, 112, 113, 114, 115, 116, 117, 118,
      119, 120, 121, 122, 48, 49, 50, 51, 52, 53, 54, 55, 56, 57, 43, 47>>
B64Pad == <<61>>

B64Char(v) == B64Alphabet[v + 1]

\* A faulty variant of b64encode: the raw bytes are written as they are.
b64encode_identity(raw) == raw

\* base64.b64encode(raw).decode('ascii')
RECURSIVE b64encode(_)
b64encode(raw) ==
    IF raw = <<>> THEN <<>>
    ELSE IF Len(raw) = 1 THEN
        <<B64Char(raw[1] \div 4), B64Char((raw[1] % 4) * 16)>>
        \o B64Pad \o B64Pad
    ELSE IF Len(raw) = 2 THEN
        <<B64Char(raw[1] \div 4),
          B64Char((raw[1] % 4) * 16 + raw[2] \div 16),
          B64Char((raw[2] % 16) * 4)>> \o B64Pad
    ELSE
        <<B64Char(raw[1] \div 4),
          B64Char((raw[1] % 4) * 16 + raw[2] \div 16),
          B64Char((raw[2] % 16) * 4 + raw[3] \div 64),
          B64Char(raw[3] % 64)>>
        \o b64encode(SubSeq(raw, 4, Len(raw)))

\* The value of a base64 digit, 64 for any other character.
B64Value(c) ==
    IF \E v \in 0..63 : B64Alphabet[v + 1] = c
    THEN CHOOSE v \in 0..63 : B64Alphabet[v + 1] = c
    ELSE 64

\* binascii.a2b_base64 without strict mode, in closed form.  The scan reads
\* s left to right; characters outside the alphabet are skipped; quad_pos is
\* the number of digits read so far modulo 4; a pad character read at
\* quad_pos >= 2 is counted, and the scan ends at the first pad character
\* where quad_pos plus the pad characters counted since the last digit
\* reaches 4.  If it never ends there, reading stops at the end of s, which
\* is an error unless quad_pos = 0.
IsB64Digit(c) == B64Value(c) < 64

\* The number of digits of s before index i.
DigitsBefore(s, i) == Cardinality({j \in 1..(i - 1) : IsB64Digit(s[j])})

\* The index of the last digit of s before index i, 0 when none.
LastDigitBefore(s, i) ==
    LET ds == {j \in 1..(i - 1) : IsB64Digit(s[j])}
    IN  IF ds = {} THEN 0 ELSE CHOOSE j \in ds : \A k \in ds : k <= j

\* The pad characters of s counted up to and including index i.
PadsAt(s, i) ==
    Cardinality({j \in (LastDigitBefore(s, i) + 1)..i : s[j] = B64Pad[1]})

\* The indexes where the scan would end on a pad character.
B64Ends(s) ==
    {i \in 1..Len(s) :
        /\ s[i] = B64Pad[1]
        /\ (DigitsBefore(s, i) % 4) >= 2
        /\ (DigitsBefore(s, i) % 4) + PadsAt(s, i) >= 4}

\* The values of the digits the scan reads.
B64Digits(s) ==
    LET ends == B64Ends(s)
        stop == IF ends = {} THEN Len(s) + 1
                ELSE CHOOSE i \in ends : \A j \in ends : i <= j
        read == SelectSeq(SubSeq(s, 1, stop - 1), IsB64Digit)
    IN  [i \in 1..Len(read) |-> B64Value(read[i])]

\* The bytes the scan writes: one at each digit read at quad_pos 1, 2 and 3.
B64Scan(s) ==
    LET v == B64Digits(s)
        n == 3 * (Len(v) \div 4) + (IF Len(v) % 4 = 0 THEN 0 ELSE (Len(v) % 4) - 1)
        byte(k) ==
            LET q == 4 * ((k - 1) \div 3)
                r == (k - 1) % 3
            IN  IF r = 0 THEN v[q + 1] * 4 + (v[q + 2] \div 16)
                ELSE IF r = 1 THEN (v[q + 2] % 16) * 16 + (v[q + 3] \div 4)
                ELSE (v[q + 3] % 4) * 64 + v[q + 4]
    IN  [ok |-> B64Ends(s) # {} \/ Len(v) % 4 = 0,
         data |-> [k \in 1..n |-> byte(k)]]

\* base64.b64decode(s): [ok, data]; ok is FALSE where it raises.
b64decode(s) == B64Scan(s)

\* -------------------------------------------------------------- paths
\* str < str: lexicographic by code point.
RECURSIVE TextLess(_, _)
TextLess(a, b) ==
    IF b = <<>> THEN FALSE
    ELSE IF a = <<>> THEN TRUE
    ELSE IF a[1] # b[1] THEN a[1] < b[1]
    ELSE TextLess(Tail(a), Tail(b))

\* PurePath.__lt__: the lists of components compared, component by component.
RECURSIVE PathLess(_, _)
PathLess(p, q) ==
    IF q = <<>> THEN FALSE
    ELSE IF p = <<>> THEN TRUE
    ELSE IF p[1] # q[1] THEN TextLess(p[1], q[1])
    ELSE PathLess(Tail(p), Tail(q))

RECURSIVE InsertPath(_, _)
InsertPath(p, sorted) ==
    IF sorted = <<>> THEN <<p>>
    ELSE IF PathLess(p, sorted[1]) THEN <<p>> \o sorted
    ELSE <<sorted[1]>> \o InsertPath(p, Tail(sorted))

\* A faulty variant of sorted: the list is left in the order the set gave it.
sorted_unsorted(paths) == paths

\* sorted(paths)
RECURSIVE sorted(_)
sorted(paths) ==
    IF paths = <<>> THEN <<>>
    ELSE InsertPath(paths[Len(paths)], sorted(SubSeq(paths, 1, Len(paths) - 1)))

\* list(a_set): the elements in an order the program does not control.
Listings(S) ==
    {l \in [1..Cardinality(S) -> S] : \A i, j \in DOMAIN l : i # j => l[i] # l[j]}

Name(p) == p[Len(p)]
Parent(p) == SubSeq(p, 1, Len(p) - 1)
IsPrefix(b, p) == Len(b) <= Len(p) /\ SubSeq(p, 1, Len(b)) = b

\* str.rfind('.') on a name: the last index of a dot, 0 when none.
RECURSIVE LastDot(_, _)
LastDot(n, i) == IF i = 0 THEN 0 ELSE IF n[i] = 46 THEN i ELSE LastDot(n, i - 1)

\* PurePath.suffix: from the last dot of the name, unless the name starts or
\* ends with it.
suffix(p) ==
    LET n == Name(p)
        i == LastDot(n, Len(n))
    IN  IF 1 < i /\ i < Len(n) THEN SubSeq(n, i, Len(n)) ELSE <<>>

\* PurePath.with_suffix(s): the name's suffix replaced by s.
with_suffix(p, s) ==
    LET n == Name(p)
        stem == SubSeq(n, 1, Len(n) - Len(suffix(p)))
    IN  Append(Parent(p), stem \o s)

\* PurePath.stem of a path.
stem_of(p) == SubSeq(Name(p), 1, Len(Name(p)) - Len(suffix(p)))

\* PurePath.relative_to(base): [ok, parts]; ok is FALSE where it raises
\* ValueError (the path is not below base).
relative_to(p, base) ==
    IF IsPrefix(base, p)
    THEN [ok |-> TRUE, parts |-> SubSeq(p, Len(base) + 1, Len(p))]
    ELSE [ok |-> FALSE, parts |-> <<>>]

\* PurePath.as_posix() of a relative path: its components joined by "/".
RECURSIVE as_posix(_)
as_posix(parts) ==
    IF parts = <<>> THEN <<46>>
    ELSE IF Len(parts) = 1 THEN parts[1]
    ELSE parts[1] \o Slash \o as_posix(Tail(parts))

\* Path(text): [abs, parts]; empty components and "." are dropped, a leading
\* "/" makes the path absolute.
ParsePath(text) ==
    LET pieces == SplitOn(text, Slash)
    IN  [abs |-> text # <<>> /\ text[1] = Slash[1],
         parts |-> SelectSeq(pieces, LAMBDA c : c # <<>> /\ c # <<46>>)]

\* root / rel: an absolute rel replaces root.
JoinPath(root, rel) == IF rel.abs THEN rel.parts ELSE root \o rel.parts

\* The file an operating-system call reaches through a path: ".." steps to
\* the parent (the root is its own parent).
RECURSIVE Resolve(_, _)
Resolve(done, rest) ==
    IF rest = <<>> THEN done
    ELSE IF rest[1] = <<46, 46>> THEN
        Resolve(IF done = <<>> THEN <<>> ELSE Parent(done), Tail(rest))
    ELSE Resolve(Append(done, rest[1]), Tail(rest))

resolve(p) == Resolve(<<>>, p)

\* The proper ancestors of a path, the root excluded.
Ancestors(p) == {SubSeq(p, 1, k) : k \in 1..(Len(p) - 1)}

\* -------------------------------------------------------------- state
VARIABLES
    disk,            \* the regular files: absolute path -> content (bytes)
    dirs,            \* the directories that exist
    unreadable,      \* the files whose open(..., 'rb') raises
    xml,             \* the parsed view of the project file: [wellformed, items]
    target,          \* pack's target_path
    base_dir,        \* pack's base_dir
    files_to_pack,   \* pack's files_to_pack
    queue,           \* the rest of sorted(list(files_to_pack)) in pack's loop
    spack,           \* the text of the archive file
    stderr,          \* the warnings printed, in order: [op, item, reason]
    runs,            \* the number of pack runs started
    prev_spack,      \* the archive text the previous pack run left
    file_blocks,     \* unpack's file_blocks
    todo,            \* the rest of file_blocks in unpack's loop
    created,         \* every path a record made unpack create or overwrite
    restored,        \* the output paths unpack wrote, one per written segment
    total_restored,  \* the count unpack prints at completion (-1: none yet)
    plan,            \* how a hand-made archive was put together
    invocations,     \* how many times the user will still run pack
    pc               \* where the program is

vars ==
    <<disk, dirs, unreadable, xml, target, base_dir, files_to_pack, queue,
      spack, stderr, runs, prev_spack, file_blocks, todo, created, restored,
      total_restored, plan, invocations, pc>>

packVars == <<base_dir, files_to_pack, queue, runs, prev_spack>>
unpackVars == <<file_blocks, todo, created, restored, total_restored>>

\* "/w/t": the directory pack is pointed at, or the project file's directory.
TargetDir == << <<119>>, <<116>> >>
\* "/out/t.spack": the archive file.
ArchivePath == << <<111, 117, 116>>, <<116, 46, 115, 112, 97, 99, 107>> >>
\* "/dest": unpack's dest_dir.
DestDir == << <<100, 101, 115, 116>> >>
\* ".vcxproj", ".vcxproj.filters"
VcxprojSuffix == <<46, 118, 99, 120, 112, 114, 111, 106>>
FiltersSuffix ==
    <<46, 118, 99, 120, 112, 114, 111, 106, 46, 102, 105, 108, 116, 101,
      114, 115>>

\* Largest number of pack runs over the same tree.
MaxRuns == 2

is_file(p) == resolve(p) \in DOMAIN disk
is_dir(p) == resolve(p) \in dirs

\* --------------------------------------------------------------- pack
\* os.walk(top) with the loop body of pack: the sub-directories whose
\* lower-cased name is in DEFAULT_EXCLUDES['dirs'] are pruned, and a file is
\* kept unless its lower-cased name or suffix is excluded.
RECURSIVE Walk(_)
Walk(top) ==
    LET files == {f \in DOMAIN disk : Parent(f) = top}
        subdirs == {d \in dirs : d # <<>> /\ Parent(d) = top
                                 /\ Lower(Name(d)) \notin EXCLUDE_DIRS}
    IN  {f \in files : /\ Lower(Name(f)) \notin EXCLUDE_FILES
                       /\ Lower(suffix(f)) \notin EXCLUDE_EXTS}
        \cup UNION {Walk(d) : d \in subdirs}

\* parse_vcxproj(vcxproj_path): the resolved paths of the existing files
\* that the Include attributes of the allow-listed elements name; a document
\* that does not parse gives none (and a warning).
parse_vcxproj(vcxproj_path) ==
    IF ~xml.wellformed THEN {}
    ELSE {resolve(JoinPath(Parent(vcxproj_path), ParsePath(xml.items[i].include))) :
            i \in {j \in DOMAIN xml.items :
                     /\ xml.items[j].tag \in ITEM_TAGS
                     /\ xml.items[j].has_include
                     /\ is_file(JoinPath(Parent(vcxproj_path),
                                         ParsePath(xml.items[j].include)))}}

\* f_out.write(text) for each text in turn on a file opened with
\* encoding='ascii': a text with a code point above 127 raises, and what the
\* earlier calls wrote stays written.
RECURSIVE WriteAll(_, _)
WriteAll(out, texts) ==
    IF texts = <<>> THEN [out |-> out, ok |-> TRUE]
    ELSE IF ~IsAscii(texts[1]) THEN [out |-> out, ok |-> FALSE]
    ELSE WriteAll(out \o texts[1], Tail(texts))

\* The six writes of one record.
RecordWrites(relative_path, content_binary) ==
    << BOUNDARY \o NL,
       PathHeader \o relative_path \o NL,
       SizeHeader \o Decimal(Len(content_binary)) \o NL,
       EncodingHeader \o NL \o NL,
       b64encode(content_binary),
       NL >>

\* One pass of pack's loop body over file_path, from the archive text so
\* far: [out, ok, reason]; ok is FALSE where the body raises.
PackOne(out, file_path) ==
    LET rel == relative_to(file_path, base_dir)
        w == WriteAll(out, RecordWrites(as_posix(rel.parts), disk[file_path]))
    IN  IF ~rel.ok THEN [out |-> out, ok |-> FALSE, reason |-> "relative_to"]
        ELSE IF file_path \in unreadable \/ file_path \notin DOMAIN disk
        THEN [out |-> out, ok |-> FALSE, reason |-> "read"]
        ELSE [out |-> w.out, ok |-> w.ok,
              reason |-> IF w.ok THEN "none" ELSE "ascii"]

\* pack(target) up to its loop, for a directory: the walk, and the archive
\* file opened for writing (truncated).
PackStartDir ==
    /\ pc \in {"idle", "packed"}
    /\ invocations > 0
    /\ target \in dirs
    /\ LET found == Walk(target)
       IN  /\ base_dir' = target
           /\ files_to_pack' = found
           /\ IF found = {}
              THEN /\ pc' = "nofiles"
                   /\ UNCHANGED <<queue, spack, prev_spack>>
              ELSE /\ \E listing \in Listings(found) : queue' = sorted(listing)
                   /\ prev_spack' = spack
                   /\ spack' = <<>>
                   /\ pc' = "packing"
    /\ runs' = runs + 1
    /\ invocations' = invocations - 1
    /\ stderr' = <<>>
    /\ UNCHANGED <<disk, dirs, unreadable, xml, target, plan>>
    /\ UNCHANGED unpackVars

\* pack(target) up to its loop, for a .vcxproj file: the project file, its
\* filters file when there is one, and what parse_vcxproj returns.
PackStartProject ==
    /\ pc = "idle"
    /\ invocations > 0
    /\ target \in DOMAIN disk
    /\ Lower(suffix(target)) = VcxprojSuffix
    /\ LET filters_path == with_suffix(target, FiltersSuffix)
           found == {target}
                    \cup (IF is_file(filters_path) THEN {filters_path} ELSE {})
                    \cup parse_vcxproj(target)
       IN  /\ base_dir' = Parent(target)
           /\ files_to_pack' = found
           /\ \E listing \in Listings(found) : queue' = sorted(listing)
    /\ stderr' = IF xml.wellformed THEN <<>>
                 ELSE <<[op |-> "parse", item |-> target, reason |-> "xml"]>>
    /\ prev_spack' = spack
    /\ spack' = <<>>
    /\ runs' = runs + 1
    /\ invocations' = invocations - 1
    /\ pc' = "packing"
    /\ UNCHANGED <<disk, dirs, unreadable, xml, target, plan>>
    /\ UNCHANGED unpackVars

\* One iteration of pack's loop.
PackFile ==
    /\ pc = "packing"
    /\ queue # <<>>
    /\ LET r == PackOne(spack, Head(queue))
       IN  /\ spack' = r.out
           /\ stderr' = IF r.ok THEN stderr
                        ELSE Append(stderr, [op |-> "pack", item |-> Head(queue),
                                             reason |-> r.reason])
    /\ queue' = Tail(queue)
    /\ UNCHANGED <<invocations, disk, dirs, unreadable, xml, target, base_dir,
                   files_to_pack, runs, prev_spack, plan, pc>>
    /\ UNCHANGED unpackVars

\* The end of pack's loop: the archive file is closed.
PackDone ==
    /\ pc = "packing"
    /\ queue = <<>>
    /\ pc' = "packed"
    /\ UNCHANGED <<invocations, disk, dirs, unreadable, xml, target, spack, stderr, plan>>
    /\ UNCHANGED packVars
    /\ UNCHANGED unpackVars

\* ------------------------------------------------------------- unpack
\* output_root = dest_dir / archive_path.stem
OutputRoot == Append(DestDir, stem_of(ArchivePath))

\* headers[key] after the header loop: the value of the last line that has
\* a colon and whose text before the first colon, stripped, is key.
RECURSIVE HeaderLookup(_, _)
HeaderLookup(lines, key) ==
    IF lines = <<>> THEN [found |-> FALSE, value |-> <<>>]
    ELSE LET line == lines[Len(lines)]
             kv == SplitFirst(line, Colon)
         IN  IF Len(kv) = 2 /\ Strip(kv[1]) = key
             THEN [found |-> TRUE, value |-> Strip(kv[2])]
             ELSE HeaderLookup(SubSeq(lines, 1, Len(lines) - 1), key)

IsDirectory(p) == p = <<>> \/ p \in dirs

\* Path.mkdir(parents=True, exist_ok=True) of directory d raises when d or
\* one of its ancestors is a regular file.
MkdirFails(d) == \E a \in Ancestors(d) \cup {d} : a \in DOMAIN disk

\* One pass of unpack's loop body over block:
\* [status, reason, disk, dirs, made, path].
UnpackOne(block) ==
    LET parts == SplitFirst(Strip(block), NL \o NL)
        lines == SplitOn(parts[1], NL)
        path == HeaderLookup(lines, KeyPath)
        encoding == HeaderLookup(lines, KeyEncoding)
        output_file_path == JoinPath(OutputRoot, ParsePath(path.value))
        parent == resolve(Parent(output_file_path))
        file == resolve(output_file_path)
        made_dirs == (Ancestors(parent) \cup {parent}) \ (dirs \cup {<<>>})
        decoded == b64decode(Strip(parts[2]))
        same == [status |-> "error", reason |-> "none", disk |-> disk,
                 dirs |-> dirs, made |-> {}, path |-> <<>>]
        after_mkdir == [same EXCEPT !.dirs = dirs \cup made_dirs,
                                    !.made = made_dirs]
    IN  IF Len(parts) < 2 THEN [same EXCEPT !.reason = "split"]
        ELSE IF ~path.found
        THEN [same EXCEPT !.status = "nopath", !.reason = "nopath"]
        ELSE IF MkdirFails(parent) THEN [same EXCEPT !.reason = "mkdir"]
        ELSE IF encoding.found /\ encoding.value = Base64Name
        THEN IF ~decoded.ok THEN [after_mkdir EXCEPT !.reason = "decode"]
             ELSE IF IsDirectory(file) \/ file \in made_dirs
             THEN [after_mkdir EXCEPT !.reason = "open"]
             ELSE [after_mkdir EXCEPT
                     !.status = "written",
                     !.disk = (file :> decoded.data) @@ disk,
                     !.made = made_dirs \cup {file},
                     !.path = file]
        ELSE IF IsDirectory(file) \/ file \in made_dirs
        THEN [after_mkdir EXCEPT !.reason = "open"]
        ELSE [after_mkdir EXCEPT
                !.status = "written",
                !.disk = (file :> parts[2]) @@ disk,
                !.made = made_dirs \cup {file},
                !.path = file]

\* unpack(archive, dest) up to its loop: the output root is made, the
\* archive is read as ASCII and split at the boundary marker.
UnpackStart ==
    /\ pc \in {"packed", "ready"}
    /\ dirs' = dirs \cup {DestDir, OutputRoot}
    /\ stderr' = <<>>
    /\ created' = {}
    /\ restored' = <<>>
    /\ total_restored' = -1
    /\ IF IsAscii(spack)
       THEN /\ file_blocks' = SelectSeq(SplitOn(spack, BOUNDARY),
                                        LAMBDA block : Strip(block) # <<>>)
            /\ todo' = file_blocks'
            /\ pc' = "unpacking"
       ELSE /\ file_blocks' = <<>>
            /\ todo' = <<>>
            /\ pc' = "unpack_failed"
    /\ UNCHANGED <<invocations, disk, unreadable, xml, target, spack, plan>>
    /\ UNCHANGED packVars

\* One iteration of unpack's loop.
UnpackBlock ==
    /\ pc = "unpacking"
    /\ todo # <<>>
    /\ LET r == UnpackOne(Head(todo))
       IN  /\ disk' = r.disk
           /\ dirs' = r.dirs
           /\ created' = created \cup r.made
           /\ restored' = IF r.status = "written"
                          THEN Append(restored, r.path) ELSE restored
           /\ stderr' = IF r.status = "written" THEN stderr
                        ELSE Append(stderr, [op |-> "unpack",
                                             item |-> Len(file_blocks) - Len(todo) + 1,
                                             reason |-> r.reason])
           /\ todo' = Tail(todo)
    /\ UNCHANGED <<invocations, unreadable, xml, target, spack, plan, file_blocks,
                   total_restored, pc>>
    /\ UNCHANGED packVars

\* The end of unpack's loop: "Total files restored: len(file_blocks)".
UnpackDone ==
    /\ pc = "unpacking"
    /\ todo = <<>>
    /\ total_restored' = Len(file_blocks)
    /\ pc' = "unpacked"
    /\ UNCHANGED <<invocations, disk, dirs, unreadable, xml, target, spack, plan,
                   file_blocks, todo, created, restored, stderr>>
    /\ UNCHANGED packVars

\* ------------------------------------------------------ initial states
NoProject == [wellformed |-> TRUE, items |-> <<>>]

\* The directories a set of files implies, with those of the target.
DirsOf(files) == UNION {Ancestors(f) : f \in files} \cup Ancestors(TargetDir)
                 \cup {TargetDir}

\* "hello"
Hello == <<104, 101, 108, 108, 111>>

\* The files a directory tree is drawn from: the path below the target and
\* the contents the file may have.
\*   a.txt, a.obj, .suo, .git/config, Debug/d.txt, sub/b.txt, U+00E9.txt,
\*   sub-x/c.txt, X64/e.txt
TreeFiles ==
    << [rel |-> << <<97, 46, 116, 120, 116>> >>, contents |-> <<Hello, <<>> >>],
       [rel |-> << <<97, 46, 111, 98, 106>> >>, contents |-> << <<0>> >>],
       [rel |-> << <<46, 115, 117, 111>> >>, contents |-> << <<1>> >>],
       [rel |-> << <<46, 103, 105, 116>>, <<99, 111, 110, 102, 105, 103>> >>,
        contents |-> << <<2>> >>],
       [rel |-> << <<68, 101, 98, 117, 103>>, <<100, 46, 116, 120, 116>> >>,
        contents |-> << <<3>> >>],
       [rel |-> << <<115, 117, 98>>, <<98, 46, 116, 120, 116>> >>,
        contents |-> << <<255, 0>>, <<0, 16, 131>> >>],
       [rel |-> << <<233, 46, 116, 120, 116>> >>, contents |-> << <<4>> >>],
       [rel |-> << <<115, 117, 98, 45, 120>>, <<99, 46, 116, 120, 116>> >>,
        contents |-> << <<5>> >>],
       [rel |-> << <<88, 54, 52>>, <<101, 46, 116, 120, 116>> >>,
        contents |-> << <<6>> >>] >>

\* Largest number of files of the tree that cannot be read.
MaxUnreadable == 1

Idle ==
    /\ base_dir = <<>>
    /\ files_to_pack = {}
    /\ queue = <<>>
    /\ spack = <<>>
    /\ stderr = <<>>
    /\ runs = 0
    /\ prev_spack = <<>>
    /\ file_blocks = <<>>
    /\ todo = <<>>
    /\ created = {}
    /\ restored = <<>>
    /\ total_restored = -1

\* A directory tree at TargetDir of at most MaxFiles files, at most
\* MaxUnreadable of them unreadable; pack has not run.
InitTree ==
    /\ \E chosen \in {S \in SUBSET DOMAIN TreeFiles : Cardinality(S) <= MaxFiles} :
         \E pick \in [chosen -> {1, 2}] :
           /\ \A i \in chosen : pick[i] <= Len(TreeFiles[i].contents)
           /\ disk = [f \in {TargetDir \o TreeFiles[i].rel : i \in chosen} |->
                        LET i == CHOOSE j \in chosen : TargetDir \o TreeFiles[j].rel = f
                        IN  TreeFiles[i].contents[pick[i]]]
    /\ dirs = DirsOf(DOMAIN disk)
    /\ unreadable \in {U \in SUBSET DOMAIN disk : Cardinality(U) <= MaxUnreadable}
    /\ xml = NoProject
    /\ target = TargetDir
    /\ plan = <<>>
    /\ pc = "idle"
    /\ Idle

\* The tree is packed once and the archive unpacked.
Init == InitTree /\ invocations = 1

Next ==
    \/ PackStartDir
    \/ PackFile
    \/ PackDone
    \/ UnpackStart
    \/ UnpackBlock
    \/ UnpackDone

Spec == Init /\ [][Next]_vars

\* ---- the same tree packed again and again
InitRepack == InitTree /\ invocations = MaxRuns

NextRepack ==
    \/ PackStartDir
    \/ PackFile
    \/ PackDone

SpecRepack == InitRepack /\ [][NextRepack]_vars

\* ---- a single file of arbitrary content
\* The bytes file contents are drawn from: 0x00, '-', '[', ']', '_', 'h', 0xFF.
ByteSamples == {0, 45, 91, 93, 95, 104, 255}

RECURSIVE ByteSeqs(_)
ByteSeqs(n) ==
    IF n = 0 THEN {<<>>}
    ELSE LET shorter == ByteSeqs(n - 1)
         IN  shorter \cup {Append(s, b) : s \in {t \in shorter : Len(t) = n - 1},
                                          b \in ByteSamples}

\* The contents of the single file: every sequence of at most MaxRaw sample
\* bytes, the bytes of the boundary marker itself, and the bytes that encode
\* to "SOURCE+/".
RawContents ==
    ByteSeqs(MaxRaw) \cup {BOUNDARY, <<72, 229, 17, 8, 79, 191>>}

InitEncode ==
    /\ \E raw \in RawContents :
         disk = (TargetDir \o << <<97, 46, 116, 120, 116>> >>) :> raw
    /\ dirs = DirsOf(DOMAIN disk)
    /\ unreadable = {}
    /\ xml = NoProject
    /\ target = TargetDir
    /\ plan = <<>>
    /\ invocations = 1
    /\ pc = "idle"
    /\ Idle

NextEncode ==
    \/ PackStartDir
    \/ PackFile
    \/ PackDone

SpecEncode == InitEncode /\ [][NextEncode]_vars

\* ---- a project file
\* "/w/t/app.vcxproj"
ProjectFile ==
    Append(TargetDir, <<97, 112, 112, 46, 118, 99, 120, 112, 114, 111, 106>>)
\* "/w/t/main.cpp", "/w/t/other.h", "/w/t/notes.txt", "/w/shared/util.h"
MainCpp == Append(TargetDir, <<109, 97, 105, 110, 46, 99, 112, 112>>)
OtherH == Append(TargetDir, <<111, 116, 104, 101, 114, 46, 104>>)
NotesTxt == Append(TargetDir, <<110, 111, 116, 101, 115, 46, 116, 120, 116>>)
SharedUtilH ==
    << <<119>>, <<115, 104, 97, 114, 101, 100>>, <<117, 116, 105, 108, 46, 104>> >>

\* The Include values of the elements: "main.cpp", "missing.cpp",
\* "../shared/util.h", "other.h".
IncludeValues ==
    { <<109, 97, 105, 110, 46, 99, 112, 112>>,
      <<109, 105, 115, 115, 105, 110, 103, 46, 99, 112, 112>>,
      <<46, 46, 47, 115, 104, 97, 114, 101, 100, 47, 117, 116, 105, 108, 46, 104>>,
      <<111, 116, 104, 101, 114, 46, 104>> }

\* The elements a project document is drawn from: two allow-listed kinds and
\* one that is not, each with an Include value or without the attribute.
ProjectItems ==
    {[tag |-> t, has_include |-> TRUE, include |-> v] :
        t \in {"ClCompile", "None", "ProjectReference"}, v \in IncludeValues}
    \cup {[tag |-> "ClInclude", has_include |-> FALSE, include |-> <<>>]}

RECURSIVE SeqsUpTo(_, _)
SeqsUpTo(S, n) ==
    IF n = 0 THEN {<<>>}
    ELSE LET shorter == SeqsUpTo(S, n - 1)
         IN  shorter \cup {Append(s, x) : s \in {t \in shorter : Len(t) = n - 1},
                                          x \in S}

\* A project file at ProjectFile with at most MaxItems elements, with or
\* without its filters file, among files it may or may not name.
InitProject ==
    /\ \E with_filters \in BOOLEAN :
         disk = [f \in {ProjectFile, MainCpp, OtherH, NotesTxt, SharedUtilH}
                       \cup (IF with_filters
                             THEN {with_suffix(ProjectFile, FiltersSuffix)}
                             ELSE {})
                 |-> IF f = MainCpp THEN Hello
                     ELSE IF f = ProjectFile THEN <<60, 47, 62>>
                     ELSE <<Len(Name(f))>>]
    /\ dirs = DirsOf(DOMAIN disk)
    /\ unreadable = {}
    /\ xml \in [wellformed : BOOLEAN, items : SeqsUpTo(ProjectItems, MaxItems)]
    /\ target = ProjectFile
    /\ plan = <<>>
    /\ invocations = 1
    /\ pc = "idle"
    /\ Idle

NextProject ==
    \/ PackStartProject
    \/ PackFile
    \/ PackDone

SpecProject == InitProject /\ [][NextProject]_vars

\* ---- an archive put together by hand
\* "a.txt", "e.txt", "sub/b.txt", "../../evil.txt", "/abs/evil.txt"
PathATxt == <<97, 46, 116, 120, 116>>
PathETxt == <<101, 46, 116, 120, 116>>
PathSubBTxt == <<115, 117, 98, 47, 98, 46, 116, 120, 116>>
PathUpEvil == <<46, 46, 47, 46, 46, 47, 101, 118, 105, 108, 46, 116, 120, 116>>
PathAbsEvil == <<47, 97, 98, 115, 47, 101, 118, 105, 108, 46, 116, 120, 116>>
\* "hi"
Hi == <<104, 105>>
\* "Encoding: Text"
EncodingText ==
    <<69, 110, 99, 111, 100, 105, 110, 103, 58, 32, 84, 101, 120, 116>>

\* The segments an archive is put together from.  "record": the record pack
\* writes for a file of this path and content; "nopath": that record without
\* its Path line; "noblank": without the blank line after the headers;
\* "badpayload": with the last character of its payload missing; "text":
\* with another Encoding and the content as payload; "stray": a boundary
\* line alone.
Segments ==
    {[kind |-> "record", path |-> PathATxt, content |-> Hi],
     [kind |-> "record", path |-> PathETxt, content |-> <<>>],
     [kind |-> "record", path |-> PathSubBTxt, content |-> Hello],
     [kind |-> "record", path |-> PathUpEvil, content |-> Hi],
     [kind |-> "record", path |-> PathAbsEvil, content |-> Hi],
     [kind |-> "nopath", path |-> PathATxt, content |-> Hi],
     [kind |-> "noblank", path |-> PathATxt, content |-> Hi],
     [kind |-> "badpayload", path |-> PathATxt, content |-> Hi],
     [kind |-> "text", path |-> PathATxt, content |-> Hi],
     [kind |-> "stray", path |-> <<>>, content |-> <<>>]}

SegmentText(seg) ==
    LET w == RecordWrites(seg.path, seg.content)
    IN  CASE seg.kind = "record" -> Flatten(w)
          [] seg.kind = "nopath" -> w[1] \o w[3] \o w[4] \o w[5] \o w[6]
          [] seg.kind = "noblank" ->
               w[1] \o w[2] \o w[3] \o EncodingHeader \o NL \o w[5] \o w[6]
          [] seg.kind = "badpayload" ->
               w[1] \o w[2] \o w[3] \o w[4]
               \o SubSeq(w[5], 1, Len(w[5]) - 1) \o w[6]
          [] seg.kind = "text" ->
               w[1] \o w[2] \o w[3] \o EncodingText \o NL \o NL
               \o seg.content \o w[6]
          [] OTHER -> w[1]

\* An archive of at most MaxBlocks segments at ArchivePath, and nothing at
\* the destination.
InitUnpack ==
    /\ plan \in SeqsUpTo(Segments, MaxBlocks)
    /\ spack = Flatten([i \in DOMAIN plan |-> SegmentText(plan[i])])
    /\ disk = <<>>
    /\ dirs = {}
    /\ unreadable = {}
    /\ xml = NoProject
    /\ target = ArchivePath
    /\ base_dir = <<>>
    /\ files_to_pack = {}
    /\ queue = <<>>
    /\ stderr = <<>>
    /\ runs = 0
    /\ prev_spack = <<>>
    /\ file_blocks = <<>>
    /\ todo = <<>>
    /\ created = {}
    /\ restored = <<>>
    /\ total_restored = -1
    /\ invocations = 0
    /\ pc = "ready"

NextUnpack ==
    \/ UnpackStart
    \/ UnpackBlock
    \/ UnpackDone

SpecUnpack == InitUnpack /\ [][NextUnpack]_vars

\* ------------------------------------------------------------- claims
\* The record pack writes for file f of the file set, as text.
RecordOf(f) ==
    Flatten(RecordWrites(as_posix(relative_to(f, base_dir).parts), disk[f]))

\* File f has its complete record in the archive.
HasRecord(f) ==
    /\ f \in DOMAIN disk
    /\ relative_to(f, base_dir).ok
    /\ Contains(RecordOf(f), spack)

\* Where the record of f starts in the archive.
RecordAt(f) == Find(RecordOf(f), spack, 1)

\* The text that follows each boundary marker of the archive.
ArchiveSegments == Tail(SplitOn(spack, BOUNDARY))

\* Where unpack puts the file of the tree f.
Restored(f) == OutputRoot \o relative_to(f, base_dir).parts

\* C1 (round trip): once a packed directory tree is unpacked, every file
\* that has its record in the archive, a file of length 0 included, is at
\* dest/<archive-stem>/<relative path> with the bytes of the original.
C1_RoundTrip ==
    pc = "unpacked" =>
        \A f \in files_to_pack :
            HasRecord(f) =>
                /\ Restored(f) \in DOMAIN disk
                /\ disk[Restored(f)] = disk[f]

\* The names of the directories strictly between the target and file f.
DirsAbove(f) == {f[k] : k \in (Len(target) + 1)..(Len(f) - 1)}

\* File f matches the exclusion rules as the claim states them: by its
\* lower-cased name, its lower-cased extension, or a directory above it whose
\* name matches an excluded directory name whatever the case of either.
MatchesExclusion(f) ==
    \/ Lower(Name(f)) \in EXCLUDE_FILES
    \/ Lower(suffix(f)) \in EXCLUDE_EXTS
    \/ \E d \in DirsAbove(f) : \E e \in EXCLUDE_DIRS : Lower(d) = Lower(e)

\* C2 (exclusion correctness): a directory-based pack emits no record for a
\* file that matches the exclusion rules.
C2_ExclusionCorrectness ==
    pc = "packed" =>
        \A f \in DOMAIN disk :
            (IsPrefix(target, f) /\ MatchesExclusion(f)) => ~HasRecord(f)

\* The files the claim says a project pack holds: the project file, its
\* filters file if it exists, and every existing file an allow-listed element
\* names by its Include attribute, wherever it is.
ProjectMembers ==
    {target}
    \cup {f \in {with_suffix(target, FiltersSuffix)} : f \in DOMAIN disk}
    \cup {f \in DOMAIN disk :
            \E i \in DOMAIN xml.items :
                /\ xml.items[i].tag \in ITEM_TAGS
                /\ xml.items[i].has_include
                /\ f = resolve(JoinPath(Parent(target),
                                        ParsePath(xml.items[i].include)))}

\* C3 (project fidelity): the records of a packed project are exactly those
\* of the project file, its filters file and the existing files its
\* allow-listed elements name, a file outside the project directory included.
C3_ProjectFidelity ==
    (pc = "packed" /\ xml.wellformed) =>
        /\ \A f \in ProjectMembers : HasRecord(f)
        /\ \A f \in DOMAIN disk \ ProjectMembers : ~HasRecord(f)
        /\ Len(ArchiveSegments) = Cardinality(ProjectMembers)

\* The segments of the hand-made archive that are corrupted as the claim
\* lists: no Path key, no blank line, a payload that does not decode.
Corrupted == {i \in DOMAIN plan : plan[i].kind \in {"nopath", "noblank", "badpayload"}}

\* The file the record of segment seg is to be extracted to.
OutputOf(seg) == resolve(JoinPath(OutputRoot, ParsePath(seg.path)))

\* C4 (malformed-block tolerance): when one record of the archive is
\* corrupted and the others are records as pack writes them, each of the
\* others is extracted with its content and the bad one gets a warning.
C4_MalformedBlockTolerance ==
    (/\ pc = "unpacked"
     /\ Cardinality(Corrupted) = 1
     /\ \A i \in DOMAIN plan \ Corrupted : plan[i].kind = "record") =>
        /\ \A i \in DOMAIN plan \ Corrupted :
              /\ OutputOf(plan[i]) \in DOMAIN disk
              /\ disk[OutputOf(plan[i])] = plan[i].content
        /\ \A i \in Corrupted : \E k \in DOMAIN stderr : stderr[k].item = i

\* C5 (unpack confinement): whatever the Path header of a record, every file
\* and directory unpack creates or overwrites for it is below the output
\* root dest/<archive-stem>.
C5_UnpackConfinement ==
    \A p \in created : IsPrefix(OutputRoot, p) /\ p # OutputRoot

\* C6 (written count): the count unpack reports at completion is the number
\* of segments whose file was written.
C6_WrittenCount ==
    pc = "unpacked" => total_restored = Len(restored)

\* C7 (determinism): a second pack run over the same tree leaves the archive
\* text of the first, and the records stand in ascending order of path
\* (compared component by component), in whatever order the file set listed
\* its files.
C7_Determinism ==
    pc = "packed" =>
        /\ runs >= 2 => spack = prev_spack
        /\ \A f, g \in files_to_pack :
              (HasRecord(f) /\ HasRecord(g) /\ PathLess(f, g)) =>
                  RecordAt(f) < RecordAt(g)

\* Two runs have packed at least two files, and the archives are the same.
C7_Witness ==
    /\ pc = "packed"
    /\ runs = 2
    /\ spack = prev_spack
    /\ Cardinality({f \in files_to_pack : HasRecord(f)}) >= 2

\* The files of the file set that cannot be read.
ReadFailed == files_to_pack \cap unreadable

\* C8 (read-failure isolation): when files of the set cannot be read, each
\* of them gets a warning and no record, every other file of the set has its
\* complete record, and the records are in sorted order.
C8_ReadFailureIsolation ==
    (pc = "packed" /\ ReadFailed # {}) =>
        /\ \A f \in ReadFailed :
              /\ \E k \in DOMAIN stderr :
                    stderr[k].item = f /\ stderr[k].reason = "read"
              /\ ~Contains(PathHeader \o as_posix(relative_to(f, base_dir).parts)
                           \o NL, spack)
        /\ \A g \in files_to_pack \ ReadFailed : HasRecord(g)
        /\ \A g, h \in files_to_pack \ ReadFailed :
              (HasRecord(g) /\ HasRecord(h) /\ PathLess(g, h)) =>
                  RecordAt(g) < RecordAt(h)

\* The payload of the only record of an archive: what stands between the
\* blank line and the last line break.
OnlyPayload ==
    LET body == SplitFirst(ArchiveSegments[1], NL \o NL)[2]
    IN  SubSeq(body, 1, Len(body) - 1)

\* C9 (boundary invariant): the payload pack writes for a file never holds
\* the boundary marker, so the archive of one file splits at the marker into
\* the empty text before it and the one record after it, whose payload is the
\* encoded content whole.
C9_BoundaryInvariant ==
    /\ \A f \in DOMAIN disk : ~Contains(BOUNDARY, b64encode(disk[f]))
    /\ (pc = "packed" /\ Cardinality(files_to_pack) = 1) =>
          \A f \in files_to_pack :
              /\ Len(SplitOn(spack, BOUNDARY)) = 2
              /\ OnlyPayload = b64encode(disk[f])
              /\ b64decode(OnlyPayload).data = disk[f]

\* A file whose bytes are the boundary marker has been packed.
C9_Witness ==
    /\ pc = "packed"
    /\ \E f \in files_to_pack : disk[f] = BOUNDARY /\ HasRecord(f)

\* C10 (all-or-nothing record emission): whatever follows a boundary marker
\* in the archive is the complete record of a file of the file set.
C10_AllOrNothing ==
    pc \in {"packing", "packed"} =>
        \A k \in DOMAIN ArchiveSegments :
            \E f \in files_to_pack :
                /\ relative_to(f, base_dir).ok
                /\ BOUNDARY \o ArchiveSegments[k] = RecordOf(f)

====
